---- MODULE Spec2Model ----
(***************************************************************************)
(* A model of the chat server: the Hub goroutine (hub.go), the per-client  *)
(* readPump / writePump goroutines (client.go), the packet handlers, the   *)
(* online index and the worker pool (server.go) and the Store.             *)
(* Every goroutine is a process with a program counter; every access to a  *)
(* channel or to a lock-protected structure is one step.                   *)
(***************************************************************************)
EXTENDS Integers, Sequences, FiniteSets, TLC

\* ------------------------------------------------------------------ bounds
NConns == 2        \* connections the listener accepts
MaxScans == 3      \* returns of scanner.Scan(), over all connections
MaxBcast == 3      \* payloads submitted to hub.broadcast
sendBufSize == 2   \* capacity of Client.send (256 in the source)
broadcastCap == 2  \* capacity of hub.broadcast (256 in the source)
jobsCap == 1       \* capacity of workerPool.jobs (1024 in the source)
NWorkers == 2      \* persistence goroutines (flag -workers, default 4)
MaxClock == 2      \* readings of the wall clock that differ
MaxLog == 2        \* messages of a short log loaded at startup

Conns == 1..NConns
Workers == 1..NWorkers

\* ------------------------------------------------------------- data domains
\* A string is a sequence of characters; "" is the empty sequence.
Empty == << >>
LowerChar(ch) == IF ch = "A" THEN "a" ELSE IF ch = "B" THEN "b" ELSE ch
ToLower(s) == [i \in DOMAIN s |-> LowerChar(s[i])]
Usernames == {<<"a">>, <<"A">>, <<"b">>}
Passwords == {<<"p">>, <<"q">>}
\* sha256 + hex: modelled as an injective tagging of the password.
hashPassword(pw) == <<"sha256", pw>>
\* User.ID and Client.userID are strings in the source; here 0 is "" and the
\* k-th generated id is k.
NoUser == 0
None == [type |-> "none"]

\* ------------------------------------------------------------------- state
VARIABLES
    clients,      \* Hub.clients: the live set
    broadcast,    \* Hub.broadcast: buffered channel of payloads
    done,         \* Hub.done is closed
    hubPc,        \* "run" while Hub.Run loops, "stopped" after it returned
    rd,           \* per connection: position of serveConn / readPump
    wr,           \* per connection: position of writePump
    cur,          \* per connection: locals of the handler in progress
    send,         \* Client.send: buffered channel
    sendClosed,   \* Client.send is closed
    connOpen,     \* Client.conn has not been closed by the server
    deadline,     \* Client.conn has a deadline (SetDeadline has been called)
    userID,       \* Client.userID
    username,     \* Client.username
    online,       \* Server.online: userID -> connection
    connID,       \* Server.connID
    listening,    \* Server.listener is open
    sdPc,         \* position of Server.Shutdown
    proc,         \* "up"; "panic" after a goroutine panicked; "exit" after main returned
    users,        \* Store.users: lower-case username -> User
    byID,         \* Store.byID: id -> User
    messages,     \* Store.messages
    usersFile,    \* contents of users.json
    msgsFile,     \* contents of messages.json
    jobs,         \* workerPool.jobs: buffered channel
    jobsClosed,   \* workerPool.jobs is closed
    wk,           \* per worker: the message it took and has not saved yet
    scans,        \* returns of scanner.Scan() so far
    bseq,         \* payloads submitted to hub.broadcast so far
    clock         \* the wall clock

hubVars == <<clients, broadcast, done, hubPc>>
connVars == <<rd, wr, cur, send, sendClosed, connOpen, deadline, userID, username>>
srvVars == <<online, connID, listening, sdPc, proc>>
storeVars == <<users, byID, messages, usersFile, msgsFile>>
poolVars == <<jobs, jobsClosed, wk>>
auxVars == <<scans, bseq, clock>>
vars == <<hubVars, connVars, srvVars, storeVars, poolVars, auxVars>>

\* --------------------------------------------------------------- helpers
Range(f) == {f[x] : x \in DOMAIN f}

\* Client.sendPacket: a non-blocking send on c.send; a full buffer drops the
\* packet.  (The caller decides what a closed channel does.)
sendPacket(s, c, item) ==
    IF Len(s[c]) < sendBufSize THEN [s EXCEPT ![c] = Append(@, item)] ELSE s

\* The packets a connection is sent directly.  The data of a response is a
\* record: None, or one field that holds the results.
Response(ok, msg, data) == [type |-> "response", success |-> ok, message |-> msg, data |-> data]
ErrorResponse(msg) == Response(FALSE, msg, None)
Welcome == [type |-> "system", message |-> "welcome"]

\* ---------------------------------------------------------------- Init
\* store.New loads both files; the data directory of an earlier run may hold
\* accounts already.
SeedUser == [id |-> 1, username |-> <<"a">>, hash |-> hashPassword(<<"p">>)]
SeedStores == {{}, {SeedUser}}

\* encoding/json on a User and on a protocol.StoredMessage: an object whose
\* members are named by the struct tags (a time is written as RFC 3339 text
\* with nanoseconds, which keeps the instant).
MarshalUser(u) == [id |-> u.id, username |-> u.username, password_hash |-> u.hash]
UnmarshalUser(j) == [id |-> j.id, username |-> j.username, hash |-> j.password_hash]
MarshalMessage(m) ==
    [id |-> m.id, user_id |-> m.userID, username |-> m.username, content |-> m.content,
     timestamp |-> m.timestamp]
UnmarshalMessage(j) ==
    [id |-> j.id, userID |-> j.user_id, username |-> j.username, content |-> j.content,
     timestamp |-> j.timestamp]

\* Store.saveUsersLocked: the array of the values of s.users, in map order,
\* so what users.json holds is a set of objects.  Store.saveMessagesLocked:
\* the array of s.messages in log order.
saveUsersLocked(m) == {MarshalUser(u) : u \in Range(m)}
saveMessagesLocked(log) == [i \in DOMAIN log |-> MarshalMessage(log[i])]

\* load, but s.users is keyed by the username as it was typed.
loadExactCase(file) ==
    LET us == {UnmarshalUser(j) : j \in file}
    IN [k \in {u.username : u \in us} |-> CHOOSE u \in us : u.username = k]

\* Store.load: both maps are rebuilt from the objects of users.json, the log
\* from the array of messages.json.
load(file) ==
    LET us == {UnmarshalUser(j) : j \in file}
    IN [k \in {ToLower(u.username) : u \in us} |->
          CHOOSE u \in us : ToLower(u.username) = k]
loadByID(file) ==
    LET us == {UnmarshalUser(j) : j \in file}
    IN [k \in {u.id : u \in us} |-> CHOOSE u \in us : u.id = k]
loadMessages(file) == [i \in DOMAIN file |-> UnmarshalMessage(file[i])]

InitStore(seed, log) ==
    /\ clients = {} /\ broadcast = <<>> /\ done = FALSE /\ hubPc = "run"
    /\ rd = [c \in Conns |-> "idle"] /\ wr = [c \in Conns |-> "idle"]
    /\ cur = [c \in Conns |-> None]
    /\ send = [c \in Conns |-> <<>>] /\ sendClosed = [c \in Conns |-> FALSE]
    /\ connOpen = [c \in Conns |-> FALSE]
    /\ deadline = [c \in Conns |-> FALSE]
    /\ userID = [c \in Conns |-> NoUser] /\ username = [c \in Conns |-> Empty]
    /\ online = << >> /\ connID = 0 /\ listening = TRUE /\ sdPc = "idle"
    /\ proc = "up"
    /\ usersFile = {MarshalUser(u) : u \in seed}
    /\ users = load(usersFile) /\ byID = loadByID(usersFile)
    /\ msgsFile = [i \in DOMAIN log |-> MarshalMessage(log[i])]
    /\ messages = loadMessages(msgsFile)
    /\ jobs = <<>> /\ jobsClosed = FALSE /\ wk = [w \in Workers |-> None]
    /\ scans = 0 /\ bseq = 0 /\ clock = 0

InitWith(seed) == InitStore(seed, <<>>)
Init == InitWith({SeedUser})
InitAny == \E seed \in SeedStores : InitWith(seed)

\* ------------------------------------------------------------------ Hub.Run
Full(c) == Len(send[c]) >= sendBufSize

\* case c := <-h.register (an unbuffered channel: serveConn is blocked in the
\* send until the Hub takes it).
HubRegister(c) ==
    /\ proc = "up" /\ hubPc = "run" /\ rd[c] = "register"
    /\ clients' = clients \cup {c}
    /\ rd' = [rd EXCEPT ![c] = "start"]
    /\ UNCHANGED <<deadline, broadcast, done, hubPc, wr, cur, send, sendClosed, connOpen, userID,
                   username, srvVars, storeVars, poolVars, auxVars>>

\* HubUnregister, but without the test that c is in the live set.
HubUnregisterUnchecked(c) ==
    /\ proc = "up" /\ hubPc = "run" /\ rd[c] = "unregister"
    /\ rd' = [rd EXCEPT ![c] = "cleanup"]
    /\ clients' = clients \ {c}
    /\ sendClosed' = [sendClosed EXCEPT ![c] = TRUE]
    /\ proc' = IF sendClosed[c] THEN "panic" ELSE proc
    /\ UNCHANGED <<deadline, broadcast, done, hubPc, wr, cur, send, connOpen, userID,
                   username, online, connID, listening, sdPc, storeVars, poolVars,
                   auxVars>>

\* case c := <-h.unregister (unbuffered: readPump's deferred cleanup is blocked
\* in the send until the Hub takes it).  close of a closed channel panics.
HubUnregister(c) ==
    /\ proc = "up" /\ hubPc = "run" /\ rd[c] = "unregister"
    /\ rd' = [rd EXCEPT ![c] = "cleanup"]
    /\ IF c \in clients
         THEN /\ clients' = clients \ {c}
              /\ sendClosed' = [sendClosed EXCEPT ![c] = TRUE]
              /\ proc' = IF sendClosed[c] THEN "panic" ELSE proc
         ELSE UNCHANGED <<clients, sendClosed, proc>>
    /\ UNCHANGED <<deadline, broadcast, done, hubPc, wr, cur, send, connOpen, userID,
                   username, online, connID, listening, sdPc, storeVars, poolVars,
                   auxVars>>

\* HubBroadcast, but the payload goes to every connection that has a channel,
\* in the live set or not.
HubBroadcastEveryone ==
    /\ proc = "up" /\ hubPc = "run" /\ broadcast # <<>>
    /\ broadcast' = Tail(broadcast)
    /\ send' = [c \in Conns |->
                  IF rd[c] # "idle" /\ ~sendClosed[c] /\ ~Full(c)
                  THEN Append(send[c], Head(broadcast)) ELSE send[c]]
    /\ clients' = clients \ {c \in clients : Full(c)}
    /\ sendClosed' = [c \in Conns |-> sendClosed[c] \/ (c \in clients /\ Full(c))]
    /\ UNCHANGED <<deadline, done, hubPc, rd, wr, cur, connOpen, userID, username,
                   online, connID, listening, sdPc, proc, storeVars, poolVars, auxVars>>

\* HubBroadcast, but a client whose buffer is full is skipped and stays in the
\* live set.
HubBroadcastKeepsSlow ==
    /\ proc = "up" /\ hubPc = "run" /\ broadcast # <<>>
    /\ broadcast' = Tail(broadcast)
    /\ send' = [c \in Conns |->
                  IF c \in clients /\ ~sendClosed[c] /\ ~Full(c)
                  THEN Append(send[c], Head(broadcast)) ELSE send[c]]
    /\ UNCHANGED <<deadline, clients, done, hubPc, rd, wr, cur, sendClosed, connOpen, userID,
                   username, online, connID, listening, sdPc, proc, storeVars, poolVars,
                   auxVars>>

\* HubBroadcast, but the Hub takes the newest payload of the buffer.
HubBroadcastNewestFirst ==
    /\ proc = "up" /\ hubPc = "run" /\ broadcast # <<>>
    /\ LET data == broadcast[Len(broadcast)]
           slow == {c \in clients : ~sendClosed[c] /\ Full(c)}
       IN /\ broadcast' = SubSeq(broadcast, 1, Len(broadcast) - 1)
          /\ send' = [c \in Conns |->
                        IF c \in clients /\ ~sendClosed[c] /\ ~Full(c)
                        THEN Append(send[c], data) ELSE send[c]]
          /\ clients' = clients \ slow
          /\ sendClosed' = [c \in Conns |-> sendClosed[c] \/ c \in slow]
    /\ UNCHANGED <<deadline, done, hubPc, rd, wr, cur, connOpen, userID, username,
                   online, connID, listening, sdPc, proc, storeVars, poolVars, auxVars>>

\* HubBroadcast, but the channel of a slow client is closed while the client
\* stays in the live set.
HubBroadcastClosesInPlace ==
    /\ proc = "up" /\ hubPc = "run" /\ broadcast # <<>>
    /\ LET data == Head(broadcast)
           slow == {c \in clients : ~sendClosed[c] /\ Full(c)}
       IN /\ broadcast' = Tail(broadcast)
          /\ send' = [c \in Conns |->
                        IF c \in clients /\ ~sendClosed[c] /\ ~Full(c)
                        THEN Append(send[c], data) ELSE send[c]]
          /\ sendClosed' = [c \in Conns |-> sendClosed[c] \/ c \in slow]
          /\ proc' = IF \E c \in clients : sendClosed[c] THEN "panic" ELSE proc
    /\ UNCHANGED <<deadline, clients, done, hubPc, rd, wr, cur, connOpen, userID, username,
                   online, connID, listening, sdPc, storeVars, poolVars, auxVars>>

\* case data := <-h.broadcast: a non-blocking send to every client; a client
\* whose buffer is full is deleted and its channel closed.  A send on a closed
\* channel panics.
HubBroadcast ==
    /\ proc = "up" /\ hubPc = "run" /\ broadcast # <<>>
    /\ LET data == Head(broadcast)
           slow == {c \in clients : ~sendClosed[c] /\ Full(c)}
       IN /\ broadcast' = Tail(broadcast)
          /\ send' = [c \in Conns |->
                        IF c \in clients /\ ~sendClosed[c] /\ ~Full(c)
                        THEN Append(send[c], data) ELSE send[c]]
          /\ clients' = clients \ slow
          /\ sendClosed' = [c \in Conns |-> sendClosed[c] \/ c \in slow]
          /\ proc' = IF \E c \in clients : sendClosed[c] THEN "panic" ELSE proc
    /\ UNCHANGED <<deadline, done, hubPc, rd, wr, cur, connOpen, userID, username, online, connID,
                   listening, sdPc, storeVars, poolVars, auxVars>>

\* HubDone, but the Hub returns without closing any channel.
HubDoneLeavesOpen ==
    /\ proc = "up" /\ hubPc = "run" /\ done
    /\ hubPc' = "stopped"
    /\ UNCHANGED <<deadline, clients, broadcast, done, rd, wr, cur, send, sendClosed, connOpen,
                   userID, username, srvVars, storeVars, poolVars, auxVars>>

\* case <-h.done: close every client's channel and return.
HubDone ==
    /\ proc = "up" /\ hubPc = "run" /\ done
    /\ hubPc' = "stopped"
    /\ sendClosed' = [c \in Conns |-> sendClosed[c] \/ c \in clients]
    /\ proc' = IF \E c \in clients : sendClosed[c] THEN "panic" ELSE proc
    /\ UNCHANGED <<deadline, clients, broadcast, done, rd, wr, cur, send, connOpen, userID,
                   username, online, connID, listening, sdPc, storeVars, poolVars,
                   auxVars>>

\* --------------------------------------------------------------- serveConn
\* Accept, but serveConn goes on without the Hub having taken the register.
AcceptUnregistered(c) ==
    /\ proc = "up" /\ listening /\ c = connID + 1 /\ rd[c] = "idle"
    /\ connID' = c
    /\ rd' = [rd EXCEPT ![c] = "start"]
    /\ connOpen' = [connOpen EXCEPT ![c] = TRUE]
    /\ UNCHANGED <<deadline, hubVars, wr, cur, send, sendClosed, userID, username, online, listening,
                   sdPc, proc, storeVars, poolVars, auxVars>>

\* ListenAndServe accepts a connection; serveConn numbers it and blocks in
\* s.hub.register <- c.
Accept(c) ==
    /\ proc = "up" /\ listening /\ c = connID + 1 /\ rd[c] = "idle"
    /\ connID' = c
    /\ rd' = [rd EXCEPT ![c] = "register"]
    /\ connOpen' = [connOpen EXCEPT ![c] = TRUE]
    /\ UNCHANGED <<deadline, hubVars, wr, cur, send, sendClosed, userID, username, online, listening,
                   sdPc, proc, storeVars, poolVars, auxVars>>

\* go c.writePump(); c.sendSystem("Welcome ..."); then readPump starts.
Start(c) ==
    /\ proc = "up" /\ rd[c] = "start"
    /\ wr' = [wr EXCEPT ![c] = "run"]
    /\ rd' = [rd EXCEPT ![c] = "read"]
    /\ IF sendClosed[c]
         THEN proc' = "panic" /\ send' = send
         ELSE proc' = proc /\ send' = sendPacket(send, c, Welcome)
    /\ UNCHANGED <<deadline, hubVars, cur, sendClosed, connOpen, userID, username, online, connID,
                   listening, sdPc, storeVars, poolVars, auxVars>>

\* --------------------------------------------------------------- writePump
\* WriteOk, but writePump takes the newest item of the queue.
WriteOkNewestFirst(c) ==
    /\ proc = "up" /\ wr[c] = "run" /\ send[c] # <<>> /\ connOpen[c]
    /\ send' = [send EXCEPT ![c] = SubSeq(@, 1, Len(@) - 1)]
    /\ UNCHANGED <<deadline, hubVars, rd, wr, cur, sendClosed, connOpen, userID, username,
                   srvVars, storeVars, poolVars, auxVars>>

\* for data := range c.send { c.conn.Write(data) }: a write that succeeds puts
\* the head of the queue on the connection.
WriteOk(c) ==
    /\ proc = "up" /\ wr[c] = "run" /\ send[c] # <<>> /\ connOpen[c]
    /\ send' = [send EXCEPT ![c] = Tail(@)]
    /\ UNCHANGED <<deadline, hubVars, rd, wr, cur, sendClosed, connOpen, userID, username,
                   srvVars, storeVars, poolVars, auxVars>>

\* A write that fails (the connection is closed, the peer is gone, or the
\* write deadline passed): writePump returns and its defer closes the conn.
WriteFail(c) ==
    /\ proc = "up" /\ wr[c] = "run" /\ send[c] # <<>>
    /\ send' = [send EXCEPT ![c] = Tail(@)]
    /\ wr' = [wr EXCEPT ![c] = "done"]
    /\ connOpen' = [connOpen EXCEPT ![c] = FALSE]
    /\ UNCHANGED <<deadline, hubVars, rd, cur, sendClosed, userID, username, srvVars, storeVars,
                   poolVars, auxVars>>

\* The channel is closed and drained: the range loop ends, the defer closes
\* the conn.
WriteExit(c) ==
    /\ proc = "up" /\ wr[c] = "run" /\ send[c] = <<>> /\ sendClosed[c]
    /\ wr' = [wr EXCEPT ![c] = "done"]
    /\ connOpen' = [connOpen EXCEPT ![c] = FALSE]
    /\ UNCHANGED <<deadline, hubVars, rd, cur, send, sendClosed, userID, username, srvVars, storeVars,
                   poolVars, auxVars>>

\* ------------------------------------------------------------------- Store
UserKey(name) == ToLower(name)

\* writeJSON: the whole document replaces the file; a write that fails
\* leaves the file as it was.
writeJSON(ok, old, new) == IF ok THEN new ELSE old

\* Store.GetHistory
GetHistory(n) ==
    LET total == Len(messages)
    IN IF n <= 0 \/ n >= total THEN messages ELSE SubSeq(messages, total - n + 1, total)

\* strings.Contains
Contains(s, q) == \E i \in 0..(Len(s) - Len(q)) : SubSeq(s, i + 1, i + Len(q)) = q
\* strings.EqualFold on the model's alphabet
EqualFold(a, b) == ToLower(a) = ToLower(b)
\* A *time.Time: nil or a reading of the clock.
Nil == [nil |-> TRUE]
At(t) == [nil |-> FALSE, t |-> t]

\* Matches, but the upper bound of the time range is exclusive.
MatchesBeforeTo(m, query, name, from, to) ==
    LET q == ToLower(query)
        u == ToLower(name)
    IN /\ ~(q # Empty /\ ~Contains(ToLower(m.content), q))
       /\ ~(u # Empty /\ ~EqualFold(m.username, u))
       /\ ~(~from.nil /\ m.timestamp < from.t)
       /\ ~(~to.nil /\ m.timestamp >= to.t)

\* Store.Search
Matches(m, query, name, from, to) ==
    LET q == ToLower(query)
        u == ToLower(name)
    IN /\ ~(q # Empty /\ ~Contains(ToLower(m.content), q))
       /\ ~(u # Empty /\ ~EqualFold(m.username, u))
       /\ ~(~from.nil /\ m.timestamp < from.t)
       /\ ~(~to.nil /\ m.timestamp > to.t)
Search(query, name, from, to) ==
    SelectSeq(messages, LAMBDA m : Matches(m, query, name, from, to))

\* --------------------------------------------------------------- readPump
isAuthenticated(c) == userID[c] # NoUser

\* scanner.Scan() returns a line and the loop body sets the deadline of the
\* connection to readTimeout from now.  The Scanner reads ahead, so lines
\* that arrived before the connection was closed are still returned after it.
ReadLine(c) ==
    /\ proc = "up" /\ rd[c] = "read"
    /\ scans < MaxScans
    /\ scans' = scans + 1
    /\ deadline' = [deadline EXCEPT ![c] = TRUE]

\* sendPacket from a handler: a send on a closed channel panics.
Reply(c, item) ==
    IF sendClosed[c]
    THEN proc' = "panic" /\ send' = send
    ELSE proc' = proc /\ send' = sendPacket(send, c, item)

\* Handlers that will submit a payload to hub.broadcast and have not yet.
Pending == Cardinality({c \in Conns : rd[c] \in {"addOnline", "join", "chatBcast"}})
MayBroadcast == bseq + Pending < MaxBcast

\* scanner.Scan() returns false: EOF, a read error, the read deadline, or the
\* connection was closed; the deferred cleanup starts.
ReadEnd(c) ==
    /\ proc = "up" /\ rd[c] = "read"
    /\ scans < MaxScans
    /\ scans' = scans + 1
    /\ rd' = [rd EXCEPT ![c] = "unregister"]
    /\ UNCHANGED <<deadline, hubVars, wr, cur, send, sendClosed, connOpen, userID, username,
                   srvVars, storeVars, poolVars, bseq, clock>>

\* A line that is not a JSON packet, or a packet of an unknown type.
ReadBad(c, why) ==
    /\ ReadLine(c)
    /\ Reply(c, ErrorResponse(why))
    /\ UNCHANGED <<hubVars, rd, wr, cur, sendClosed, connOpen, userID, username, online,
                   connID, listening, sdPc, storeVars, poolVars, bseq, clock>>

\* case protocol.TypeQuit: c.conn.Close()
ReadQuit(c) ==
    /\ ReadLine(c)
    /\ connOpen' = [connOpen EXCEPT ![c] = FALSE]
    /\ UNCHANGED <<hubVars, rd, wr, cur, send, sendClosed, userID, username, srvVars,
                   storeVars, poolVars, bseq, clock>>

\* Client.setIdentity
setIdentity(c, u) ==
    /\ userID' = [userID EXCEPT ![c] = u.id]
    /\ username' = [username EXCEPT ![c] = u.username]

\* handleRegister up to setIdentity: Store.RegisterUser under the Store's
\* lock, its snapshot write included.
ReadRegister(c, name, pw, diskOk) ==
    /\ ReadLine(c) /\ MayBroadcast
    /\ LET key == UserKey(name)
           u == [id |-> Cardinality(DOMAIN byID) + 1, username |-> name,
                 hash |-> hashPassword(pw)]
       IN IF name = Empty \/ pw = Empty
          THEN /\ Reply(c, ErrorResponse("register requires {username, password}"))
               /\ UNCHANGED <<rd, cur, userID, username, storeVars>>
          ELSE IF key \in DOMAIN users
          THEN /\ Reply(c, ErrorResponse("username is already taken"))
               /\ UNCHANGED <<rd, cur, userID, username, storeVars>>
          ELSE /\ users' = [k \in DOMAIN users \cup {key} |-> IF k = key THEN u ELSE users[k]]
               /\ byID' = [k \in DOMAIN byID \cup {u.id} |-> IF k = u.id THEN u ELSE byID[k]]
               /\ usersFile' = writeJSON(diskOk, usersFile, saveUsersLocked(users'))
               /\ UNCHANGED <<messages, msgsFile>>
               /\ IF diskOk
                  THEN /\ setIdentity(c, u)
                       /\ rd' = [rd EXCEPT ![c] = "addOnline"]
                       /\ cur' = [cur EXCEPT ![c] = [op |-> "register", username |-> u.username]]
                       /\ UNCHANGED <<send, proc>>
                  ELSE /\ Reply(c, ErrorResponse("write failed"))
                       /\ UNCHANGED <<rd, cur, userID, username>>
    /\ UNCHANGED <<hubVars, wr, sendClosed, connOpen, online, connID, listening, sdPc,
                   poolVars, bseq, clock>>

\* handleLogin up to setIdentity: Store.Authenticate.
ReadLogin(c, name, pw) ==
    /\ ReadLine(c) /\ MayBroadcast
    /\ LET key == UserKey(name)
       IN IF name = Empty \/ pw = Empty
          THEN /\ Reply(c, ErrorResponse("login requires {username, password}"))
               /\ UNCHANGED <<rd, cur, userID, username>>
          ELSE IF key \notin DOMAIN users
          THEN /\ Reply(c, ErrorResponse("user not found"))
               /\ UNCHANGED <<rd, cur, userID, username>>
          ELSE IF users[key].hash # hashPassword(pw)
          THEN /\ Reply(c, ErrorResponse("incorrect password"))
               /\ UNCHANGED <<rd, cur, userID, username>>
          ELSE /\ setIdentity(c, users[key])
               /\ rd' = [rd EXCEPT ![c] = "addOnline"]
               /\ cur' = [cur EXCEPT ![c] = [op |-> "login", username |-> users[key].username]]
               /\ UNCHANGED <<send, proc>>
    /\ UNCHANGED <<hubVars, wr, sendClosed, connOpen, online, connID, listening, sdPc,
                   storeVars, poolVars, bseq, clock>>

\* Server.addOnline (s.online[c.userID] = c) and c.sendResponse(true, ...).
\* No other goroutine's step touches both s.online and c.send, so the two
\* are one step.
AddOnline(c) ==
    /\ proc = "up" /\ rd[c] = "addOnline"
    /\ online' = [k \in DOMAIN online \cup {userID[c]} |->
                    IF k = userID[c] THEN c ELSE online[k]]
    /\ Reply(c, Response(TRUE, cur[c].op, None))
    /\ rd' = [rd EXCEPT ![c] = "join"]
    /\ UNCHANGED <<deadline, hubVars, wr, cur, sendClosed, connOpen, userID, username, connID,
                   listening, sdPc, storeVars, poolVars, auxVars>>

\* Server.broadcastSystem("... joined the chat"): a blocking send on the
\* buffered channel hub.broadcast.
Join(c) ==
    /\ proc = "up" /\ rd[c] = "join" /\ Len(broadcast) < broadcastCap
    /\ broadcast' = Append(broadcast, [type |-> "system", message |-> "joined",
                                       username |-> cur[c].username, from |-> c,
                                       n |-> bseq + 1])
    /\ bseq' = bseq + 1
    /\ rd' = [rd EXCEPT ![c] = "read"]
    /\ cur' = [cur EXCEPT ![c] = None]
    /\ UNCHANGED <<deadline, clients, done, hubPc, wr, send, sendClosed, connOpen, userID,
                   username, srvVars, storeVars, poolVars, scans, clock>>

\* The payload handleChat broadcasts for msg.
ChatPayload(c, msg) ==
    [type |-> "broadcast", userID |-> msg.userID, username |-> msg.username,
     content |-> msg.content, timestamp |-> msg.timestamp, from |-> c, n |-> bseq + 1]

\* ReadChat, but the handler does not ask whether the connection has an
\* identity.
ReadChatUnchecked(c, content, tick) ==
    /\ ReadLine(c) /\ MayBroadcast
    /\ IF content = Empty
       THEN /\ Reply(c, ErrorResponse("chat requires {content}"))
            /\ UNCHANGED <<rd, cur, clock, broadcast, bseq>>
       ELSE LET now == IF tick /\ clock < MaxClock THEN clock + 1 ELSE clock
                msg == [id |-> now, userID |-> userID[c], username |-> username[c],
                        content |-> content, timestamp |-> now]
            IN /\ clock' = now
               /\ cur' = [cur EXCEPT ![c] = msg]
               /\ IF Len(broadcast) < broadcastCap
                  THEN /\ broadcast' = Append(broadcast, ChatPayload(c, msg))
                       /\ bseq' = bseq + 1
                       /\ rd' = [rd EXCEPT ![c] = "chatSubmit"]
                  ELSE /\ rd' = [rd EXCEPT ![c] = "chatBcast"]
                       /\ UNCHANGED <<broadcast, bseq>>
               /\ UNCHANGED <<send, proc>>
    /\ UNCHANGED <<clients, done, hubPc, wr, sendClosed, connOpen, userID, username, online,
                   connID, listening, sdPc, storeVars, poolVars>>

\* handleChat up to s.hub.broadcast <- data.  time.Now() may return the
\* reading another handler got.  The send blocks while the buffer is full:
\* the handler then waits in "chatBcast".
ReadChat(c, content, tick) ==
    /\ ReadLine(c) /\ MayBroadcast
    /\ IF ~isAuthenticated(c)
       THEN /\ Reply(c, ErrorResponse("you must login or register first"))
            /\ UNCHANGED <<rd, cur, clock, broadcast, bseq>>
       ELSE IF content = Empty
       THEN /\ Reply(c, ErrorResponse("chat requires {content}"))
            /\ UNCHANGED <<rd, cur, clock, broadcast, bseq>>
       ELSE LET now == IF tick /\ clock < MaxClock THEN clock + 1 ELSE clock
                msg == [id |-> now, userID |-> userID[c], username |-> username[c],
                        content |-> content, timestamp |-> now]
            IN /\ clock' = now
               /\ cur' = [cur EXCEPT ![c] = msg]
               /\ IF Len(broadcast) < broadcastCap
                  THEN /\ broadcast' = Append(broadcast, ChatPayload(c, msg))
                       /\ bseq' = bseq + 1
                       /\ rd' = [rd EXCEPT ![c] = "chatSubmit"]
                  ELSE /\ rd' = [rd EXCEPT ![c] = "chatBcast"]
                       /\ UNCHANGED <<broadcast, bseq>>
               /\ UNCHANGED <<send, proc>>
    /\ UNCHANGED <<clients, done, hubPc, wr, sendClosed, connOpen, userID, username, online,
                   connID, listening, sdPc, storeVars, poolVars>>

\* s.hub.broadcast <- data, once the buffer has room again.
ChatBroadcast(c) ==
    /\ proc = "up" /\ rd[c] = "chatBcast" /\ Len(broadcast) < broadcastCap
    /\ broadcast' = Append(broadcast, ChatPayload(c, cur[c]))
    /\ bseq' = bseq + 1
    /\ rd' = [rd EXCEPT ![c] = "chatSubmit"]
    /\ UNCHANGED <<deadline, clients, done, hubPc, wr, cur, send, sendClosed, connOpen,
                   userID, username, srvVars, storeVars, poolVars, scans, clock>>

\* ChatSubmit, but a job the queue has no room for takes its payload back
\* from hub.broadcast.
ChatSubmitOrRetract(c) ==
    /\ proc = "up" /\ rd[c] = "chatSubmit" /\ ~jobsClosed
    /\ IF Len(jobs) < jobsCap
       THEN jobs' = Append(jobs, cur[c]) /\ broadcast' = broadcast
       ELSE jobs' = jobs /\ broadcast' = SelectSeq(broadcast, LAMBDA b : b.from # c)
    /\ rd' = [rd EXCEPT ![c] = "read"]
    /\ cur' = [cur EXCEPT ![c] = None]
    /\ UNCHANGED <<deadline, clients, done, hubPc, wr, send, sendClosed, connOpen, userID, username,
                   srvVars, storeVars, jobsClosed, wk, auxVars>>

\* workerPool.submit: a non-blocking send on p.jobs; a full queue drops the
\* job, a closed queue panics.
ChatSubmit(c) ==
    /\ proc = "up" /\ rd[c] = "chatSubmit"
    /\ IF jobsClosed
       THEN proc' = "panic" /\ jobs' = jobs
       ELSE /\ proc' = proc
            /\ jobs' = IF Len(jobs) < jobsCap THEN Append(jobs, cur[c]) ELSE jobs
    /\ rd' = [rd EXCEPT ![c] = "read"]
    /\ cur' = [cur EXCEPT ![c] = None]
    /\ UNCHANGED <<deadline, hubVars, wr, send, sendClosed, connOpen, userID, username, online,
                   connID, listening, sdPc, storeVars, jobsClosed, wk, auxVars>>

\* handleSearch (bad: the payload does not decode).
ReadSearch(c, bad, query, name, from, to) ==
    /\ ReadLine(c)
    /\ Reply(c, IF ~isAuthenticated(c) THEN ErrorResponse("you must login first")
                ELSE IF bad THEN ErrorResponse("malformed search payload")
                ELSE IF query = Empty /\ name = Empty /\ from.nil /\ to.nil
                THEN ErrorResponse("provide at least one search criterion")
                ELSE Response(TRUE, "results", [results |-> Search(query, name, from, to)]))
    /\ UNCHANGED <<hubVars, rd, wr, cur, sendClosed, connOpen, userID, username, online,
                   connID, listening, sdPc, storeVars, poolVars, bseq, clock>>

\* handleHistory (a payload that does not decode counts as limit 0).
defaultLimit == 20
\* historyLimit, but a limit that is not positive is passed on as it is.
historyLimitRaw(limit) == limit
historyLimit(limit) == IF limit <= 0 THEN defaultLimit ELSE limit
ReadHistory(c, limit) ==
    /\ ReadLine(c)
    /\ Reply(c, IF ~isAuthenticated(c) THEN ErrorResponse("you must login first")
                ELSE Response(TRUE, "last messages",
                              [messages |-> GetHistory(historyLimit(limit))]))
    /\ UNCHANGED <<hubVars, rd, wr, cur, sendClosed, connOpen, userID, username, online,
                   connID, listening, sdPc, storeVars, poolVars, bseq, clock>>

\* Server.onlineUsers: one UserInfo per entry of s.online, read from the
\* Client the entry points to.
onlineUsers == [k \in DOMAIN online |->
                  [userID |-> userID[online[k]], username |-> username[online[k]]]]

\* handleUsers
ReadUsers(c) ==
    /\ ReadLine(c)
    /\ Reply(c, IF ~isAuthenticated(c) THEN ErrorResponse("you must login first")
                ELSE Response(TRUE, "users online", [users |-> onlineUsers]))
    /\ UNCHANGED <<hubVars, rd, wr, cur, sendClosed, connOpen, userID, username, online,
                   connID, listening, sdPc, storeVars, poolVars, bseq, clock>>

\* scanner.Scan() returns false because the server has closed the connection
\* and the Scanner holds no further line; the deferred cleanup starts.
ReadClosed(c) ==
    /\ proc = "up" /\ rd[c] = "read" /\ ~connOpen[c]
    /\ rd' = [rd EXCEPT ![c] = "unregister"]
    /\ UNCHANGED <<deadline, hubVars, wr, cur, send, sendClosed, connOpen, userID, username,
                   srvVars, storeVars, poolVars, auxVars>>

\* The deadline of the connection passes while Scan waits for input: the
\* read fails, Scan returns false and the deferred cleanup starts.
ReadTimeout(c) ==
    /\ proc = "up" /\ rd[c] = "read" /\ deadline[c]
    /\ rd' = [rd EXCEPT ![c] = "unregister"]
    /\ UNCHANGED <<deadline, hubVars, wr, cur, send, sendClosed, connOpen, userID, username,
                   srvVars, storeVars, poolVars, auxVars>>

\* readPump's deferred cleanup after the Hub took the unregister:
\* Server.removeOnline, then c.conn.Close().
Cleanup(c) ==
    /\ proc = "up" /\ rd[c] = "cleanup"
    /\ online' = IF isAuthenticated(c)
                 THEN [k \in DOMAIN online \ {userID[c]} |-> online[k]]
                 ELSE online
    /\ connOpen' = [connOpen EXCEPT ![c] = FALSE]
    /\ rd' = [rd EXCEPT ![c] = "done"]
    /\ UNCHANGED <<deadline, hubVars, wr, cur, send, sendClosed, userID, username, connID,
                   listening, sdPc, proc, storeVars, poolVars, auxVars>>

\* ------------------------------------------------------------- worker pool
Exited == [type |-> "exited"]

\* WorkerTake, but the job stays in the queue.
WorkerTakeLeavesJob(w) ==
    /\ proc = "up" /\ wk[w] = None /\ jobs # <<>>
    /\ wk' = [wk EXCEPT ![w] = Head(jobs)]
    /\ UNCHANGED <<hubVars, connVars, srvVars, storeVars, jobs, jobsClosed, auxVars>>

\* for msg := range p.jobs
WorkerTake(w) ==
    /\ proc = "up" /\ wk[w] = None /\ jobs # <<>>
    /\ wk' = [wk EXCEPT ![w] = Head(jobs)]
    /\ jobs' = Tail(jobs)
    /\ UNCHANGED <<hubVars, connVars, srvVars, storeVars, jobsClosed, auxVars>>

\* WorkerSave, but the snapshot that is written was taken before the append.
WorkerSaveStaleSnapshot(w, diskOk) ==
    /\ proc = "up" /\ wk[w] \notin {None, Exited}
    /\ messages' = Append(messages, wk[w])
    /\ msgsFile' = writeJSON(diskOk, msgsFile, saveMessagesLocked(messages))
    /\ wk' = [wk EXCEPT ![w] = None]
    /\ UNCHANGED <<hubVars, connVars, srvVars, users, byID, usersFile, jobs, jobsClosed,
                   auxVars>>

\* Store.SaveMessage under the Store's lock; a write error is only logged.
WorkerSave(w, diskOk) ==
    /\ proc = "up" /\ wk[w] \notin {None, Exited}
    /\ messages' = Append(messages, wk[w])
    /\ msgsFile' = writeJSON(diskOk, msgsFile, saveMessagesLocked(messages'))
    /\ wk' = [wk EXCEPT ![w] = None]
    /\ UNCHANGED <<hubVars, connVars, srvVars, users, byID, usersFile, jobs, jobsClosed,
                   auxVars>>

\* The queue is closed and drained: the worker returns (wg.Done).
WorkerExit(w) ==
    /\ proc = "up" /\ wk[w] = None /\ jobs = <<>> /\ jobsClosed
    /\ wk' = [wk EXCEPT ![w] = Exited]
    /\ UNCHANGED <<hubVars, connVars, srvVars, storeVars, jobs, jobsClosed, auxVars>>

\* ------------------------------------------------------------------ Shutdown
\* Server.Shutdown, run by the signal goroutine: s.listener.Close()
ShutdownListener ==
    /\ proc = "up" /\ sdPc = "idle"
    /\ listening' = FALSE
    /\ sdPc' = "stopHub"
    /\ UNCHANGED <<hubVars, connVars, online, connID, proc, storeVars, poolVars, auxVars>>

\* s.hub.Stop(): close(h.done)
ShutdownHub ==
    /\ proc = "up" /\ sdPc = "stopHub"
    /\ done' = TRUE
    /\ sdPc' = "stopPool"
    /\ UNCHANGED <<clients, broadcast, hubPc, connVars, online, connID, listening, proc,
                   storeVars, poolVars, auxVars>>

\* s.pool.stop(): close(p.jobs)
ShutdownPool ==
    /\ proc = "up" /\ sdPc = "stopPool"
    /\ jobsClosed' = TRUE
    /\ sdPc' = "wait"
    /\ UNCHANGED <<hubVars, connVars, online, connID, listening, proc, storeVars, jobs, wk,
                   auxVars>>

\* ... p.wg.Wait()
ShutdownWait ==
    /\ proc = "up" /\ sdPc = "wait" /\ \A w \in Workers : wk[w] = Exited
    /\ sdPc' = "done"
    /\ UNCHANGED <<hubVars, connVars, online, connID, listening, proc, storeVars, poolVars,
                   auxVars>>

\* Accept fails on the closed listener, ListenAndServe returns nil and main
\* returns: the process ends, whatever the other goroutines are doing.
MainExit ==
    /\ proc = "up" /\ ~listening
    /\ proc' = "exit"
    /\ UNCHANGED <<hubVars, connVars, online, connID, listening, sdPc, storeVars, poolVars,
                   auxVars>>

\* ------------------------------------------------------------- specification
Contents == {<<"h">>}
Names == Usernames \cup {Empty}
Secrets == Passwords \cup {Empty}

HubStep ==
    \/ \E c \in Conns : HubRegister(c)
    \/ \E c \in Conns : HubUnregister(c)
    \/ HubBroadcast

ConnStep ==
    \/ \E c \in Conns : Accept(c)
    \/ \E c \in Conns : Start(c)
    \/ \E c \in Conns : ReadEnd(c)
    \/ \E c \in Conns : Cleanup(c)
    \/ \E c \in Conns : WriteOk(c)
    \/ \E c \in Conns : WriteFail(c)
    \/ \E c \in Conns : WriteExit(c)

AuthStep ==
    \/ \E c \in Conns : AddOnline(c)
    \/ \E c \in Conns : Join(c)

ChatStep ==
    \/ \E c \in Conns : ChatBroadcast(c)
    \/ \E c \in Conns : ChatSubmit(c)
    \/ \E w \in Workers : WorkerTake(w)
    \/ \E w \in Workers, ok \in BOOLEAN : WorkerSave(w, ok)

Next ==
    \/ HubStep
    \/ ConnStep
    \/ AuthStep
    \/ ChatStep
    \/ \E c \in Conns : ReadLogin(c, <<"a">>, <<"p">>)
    \/ \E c \in Conns : ReadChat(c, <<"h">>, TRUE)

Spec == Init /\ [][Next]_vars

\* A second specification: registration, login under either of two accounts,
\* the requests that need an identity and lines that do not decode, over a
\* data directory that may or may not hold an account already.
QueryStep ==
    \/ \E c \in Conns : ReadSearch(c, FALSE, <<"h">>, Empty, Nil, Nil)
    \/ \E c \in Conns : ReadHistory(c, 0)
    \/ \E c \in Conns : ReadUsers(c)
    \/ \E c \in Conns : ReadBad(c, "malformed packet")

NextAuth ==
    \/ HubStep
    \/ \E c \in Conns : Accept(c)
    \/ \E c \in Conns : Start(c)
    \/ \E c \in Conns : ReadEnd(c)
    \/ \E c \in Conns : Cleanup(c)
    \/ \E c \in Conns : WriteOk(c)
    \/ AuthStep
    \/ QueryStep
    \/ \E c \in Conns : ChatBroadcast(c)
    \/ \E c \in Conns : ChatSubmit(c)
    \/ \E c \in Conns, name \in {<<"A">>, <<"b">>}, ok \in BOOLEAN :
          ReadRegister(c, name, <<"p">>, ok)
    \/ \E c \in Conns, pw \in Passwords : ReadLogin(c, <<"a">>, pw)
    \/ \E c \in Conns : ReadChat(c, <<"h">>, TRUE)

SpecAuth == InitAny /\ [][NextAuth]_vars

\* A third specification: Server.Shutdown up to hub.Stop() while connections
\* log in, are written to and disconnect; main may return as soon as the
\* listener is closed.
NextHubStop ==
    \/ HubStep
    \/ HubDone
    \/ ConnStep
    \/ AuthStep
    \/ \E c \in Conns : ReadLogin(c, <<"a">>, <<"p">>)
    \/ ShutdownListener
    \/ ShutdownHub
    \/ MainExit

SpecHubStop == Init /\ [][NextHubStop]_vars

\* writePump is a goroutine of its own and every write has a deadline: while
\* it has something to do it takes a step.
WritePumpStep(c) == WriteOk(c) \/ WriteFail(c) \/ WriteExit(c)
SpecHubStopFair == SpecHubStop /\ \A c \in Conns : WF_vars(WritePumpStep(c))

\* A fourth specification: the whole of Server.Shutdown while connections
\* log in and chat and the workers persist; no connection is written to or
\* disconnects.
NextPoolStop ==
    \/ \E c \in Conns : HubRegister(c)
    \/ HubBroadcast
    \/ HubDone
    \/ \E c \in Conns : Accept(c)
    \/ \E c \in Conns : Start(c)
    \/ AuthStep
    \/ ChatStep
    \/ \E c \in Conns : ReadLogin(c, <<"a">>, <<"p">>)
    \/ \E c \in Conns : ReadChat(c, <<"h">>, TRUE)
    \/ ShutdownListener
    \/ ShutdownHub
    \/ ShutdownPool
    \/ \E w \in Workers : WorkerExit(w)
    \/ ShutdownWait
    \/ MainExit

SpecPoolStop == Init /\ [][NextPoolStop]_vars

\* A fifth specification: search and history over the message log that
\* store.New loaded from an earlier run's data directory.
StoredUsers ==
    {[id |-> 1, username |-> <<"A">>, hash |-> hashPassword(<<"p">>)],
     [id |-> 2, username |-> <<"a", "b">>, hash |-> hashPassword(<<"p">>)]}

\* A protocol.StoredMessage of the account u.
Stored(u, content, t) ==
    [id |-> t, userID |-> u.id, username |-> u.username, content |-> content,
     timestamp |-> t]
StoredMessages ==
    {Stored(u, content, t) : u \in StoredUsers, content \in {<<"A", "b">>, <<"b">>},
                             t \in 1..MaxClock}

\* Short logs of any messages in any order, and logs around the default
\* history bound.
ShortLogs == UNION {[1..n -> StoredMessages] : n \in 0..MaxLog}
LongLog(n) ==
    [i \in 1..n |-> Stored(CHOOSE u \in StoredUsers : u.id = 1, <<"b">>, i)]
Logs == ShortLogs \cup {LongLog(n) : n \in (defaultLimit - 1)..(defaultLimit + 2)}

InitLoaded == \E log \in Logs : InitStore(StoredUsers, log)

\* The criteria of a search packet and the limit of a history packet.
Queries == {Empty, <<"a">>, <<"B">>, <<"b", "A">>}
SearchNames == {Empty, <<"a">>, <<"A", "B">>, <<"b">>}
Times == {Nil} \cup {At(t) : t \in 1..MaxClock}
Limits == {-1, 0, 1, 2, defaultLimit, defaultLimit + 1}
\* The criteria the client of NextQuery sends.
AskedQueries == {Empty, <<"a">>}
AskedNames == {Empty, <<"a">>}

\* One client connects, logs in and asks.
NextQuery ==
    \/ Accept(1)
    \/ HubRegister(1)
    \/ Start(1)
    \/ WriteOk(1)
    \/ ReadLogin(1, <<"a">>, <<"p">>)
    \/ AuthStep
    \/ HubBroadcast
    \/ ReadSearch(1, TRUE, Empty, Empty, Nil, Nil)
    \/ \E query \in AskedQueries, name \in AskedNames, from \in Times, to \in Times :
          ReadSearch(1, FALSE, query, name, from, to)
    \/ \E limit \in Limits : ReadHistory(1, limit)

SpecQuery == InitLoaded /\ [][NextQuery]_vars

\* A sixth specification: the Store and its two files.  Connections register
\* and chat, the workers persist, any write to disk may fail, and the process
\* may be ended at any point and started again on the same data directory.

\* main is run again: server.New builds a new Hub, pool and online index, and
\* store.New loads both files into a fresh Store.  Nothing of the run before
\* is left but the files.
Restart ==
    /\ clients' = {} /\ broadcast' = <<>> /\ done' = FALSE /\ hubPc' = "run"
    /\ rd' = [c \in Conns |-> "idle"] /\ wr' = [c \in Conns |-> "idle"]
    /\ cur' = [c \in Conns |-> None]
    /\ send' = [c \in Conns |-> <<>>] /\ sendClosed' = [c \in Conns |-> FALSE]
    /\ connOpen' = [c \in Conns |-> FALSE]
    /\ deadline' = [c \in Conns |-> FALSE]
    /\ userID' = [c \in Conns |-> NoUser] /\ username' = [c \in Conns |-> Empty]
    /\ online' = << >> /\ connID' = 0 /\ listening' = TRUE /\ sdPc' = "idle"
    /\ proc' = "up"
    /\ users' = load(usersFile) /\ byID' = loadByID(usersFile)
    /\ messages' = loadMessages(msgsFile)
    /\ jobs' = <<>> /\ jobsClosed' = FALSE /\ wk' = [w \in Workers |-> None]
    /\ UNCHANGED <<usersFile, msgsFile, auxVars>>

NextStore ==
    \/ \E c \in Conns : Accept(c)
    \/ \E c \in Conns : HubRegister(c)
    \/ \E c \in Conns : Start(c)
    \/ HubBroadcast
    \/ AuthStep
    \/ ChatStep
    \/ \E c \in Conns, name \in {<<"A">>, <<"b">>}, ok \in BOOLEAN :
          ReadRegister(c, name, <<"p">>, ok)
    \/ \E c \in Conns : ReadLogin(c, <<"a">>, <<"p">>)
    \/ \E c \in Conns : ReadChat(c, <<"h">>, TRUE)
    \/ Restart

SpecStore == InitAny /\ [][NextStore]_vars

\* A seventh specification: connections log in, register and quit; a closed
\* connection is closed by a quit packet only (no write fails, no peer hangs
\* up).  Lines the Scanner read before the quit are still returned after it.
NextQuit ==
    \/ HubStep
    \/ \E c \in Conns : Accept(c)
    \/ \E c \in Conns : Start(c)
    \/ \E c \in Conns : WriteOk(c)
    \/ AuthStep
    \/ \E c \in Conns : ReadLogin(c, <<"a">>, <<"p">>)
    \/ \E c \in Conns : ReadRegister(c, <<"b">>, <<"p">>, TRUE)
    \/ \E c \in Conns : ReadQuit(c)
    \/ \E c \in Conns : ReadClosed(c)
    \/ \E c \in Conns : Cleanup(c)

SpecQuit == Init /\ [][NextQuit]_vars

\* The Hub and every readPump are goroutines of their own: a step one of them
\* can take (the Hub's next event, a handler's next statement, the return of
\* Scan on a closed connection, the deferred cleanup) is taken.
ReaderStep(c) == AddOnline(c) \/ Join(c) \/ ReadClosed(c) \/ Cleanup(c)
SpecQuitFair ==
    /\ SpecQuit
    /\ WF_vars(HubStep)
    /\ \A c \in Conns : WF_vars(ReaderStep(c))

\* An eighth specification: clients that connect, may log in or send a line
\* that does not decode, and then send nothing more; no client hangs up, so
\* a readPump ends by the deadline only.
NextIdle ==
    \/ HubStep
    \/ \E c \in Conns : Accept(c)
    \/ \E c \in Conns : Start(c)
    \/ \E c \in Conns : WriteOk(c)
    \/ AuthStep
    \/ \E c \in Conns : ReadLogin(c, <<"a">>, <<"p">>)
    \/ \E c \in Conns : ReadBad(c, "malformed packet")
    \/ \E c \in Conns : ReadTimeout(c)
    \/ \E c \in Conns : Cleanup(c)

SpecIdle == Init /\ [][NextIdle]_vars

\* The Hub and the readPumps are scheduled, and a deadline that is set passes.
IdleStep(c) == AddOnline(c) \/ Join(c) \/ ReadTimeout(c) \/ Cleanup(c)
SpecIdleFair ==
    /\ SpecIdle
    /\ WF_vars(HubStep)
    /\ \A c \in Conns : WF_vars(IdleStep(c))

\* A ninth specification: connections log in and register while a write to
\* any of them may fail; a writePump ends by a failed write only, and a
\* readPump by finding its connection closed.
NextWriteFail ==
    \/ HubStep
    \/ \E c \in Conns : Accept(c)
    \/ \E c \in Conns : Start(c)
    \/ \E c \in Conns : WriteOk(c)
    \/ \E c \in Conns : WriteFail(c)
    \/ AuthStep
    \/ \E c \in Conns : ReadLogin(c, <<"a">>, <<"p">>)
    \/ \E c \in Conns : ReadRegister(c, <<"b">>, <<"p">>, TRUE)
    \/ \E c \in Conns : ReadClosed(c)
    \/ \E c \in Conns : Cleanup(c)

SpecWriteFail == Init /\ [][NextWriteFail]_vars
SpecWriteFailFair ==
    /\ SpecWriteFail
    /\ WF_vars(HubStep)
    /\ \A c \in Conns : WF_vars(ReaderStep(c))

\* A tenth specification: connections that register or log in and then send
\* requests the handlers refuse: a chat without content, a search without a
\* criterion, a register of a taken name, a login with a wrong password or
\* for no account, a packet of an unknown type.  No client hangs up.
NextDomain ==
    \/ \E c \in Conns : HubRegister(c)
    \/ HubBroadcast
    \/ \E c \in Conns : Accept(c)
    \/ \E c \in Conns : Start(c)
    \/ \E c \in Conns : WriteOk(c)
    \/ AuthStep
    \/ \E c \in Conns, pw \in Passwords : ReadLogin(c, <<"a">>, pw)
    \/ \E c \in Conns : ReadRegister(c, <<"A">>, <<"p">>, TRUE)
    \/ \E c \in Conns : ReadChat(c, Empty, TRUE)
    \/ \E c \in Conns : ReadSearch(c, FALSE, Empty, Empty, Nil, Nil)
    \/ \E c \in Conns : ReadBad(c, "unknown packet type")

SpecDomain == InitAny /\ [][NextDomain]_vars

\* An eleventh specification: chats whose handlers read the clock, which may
\* or may not have advanced since the reading before, and the workers that
\* persist them.  No connection is written to or hangs up.
NextClock ==
    \/ \E c \in Conns : Accept(c)
    \/ \E c \in Conns : HubRegister(c)
    \/ \E c \in Conns : Start(c)
    \/ HubBroadcast
    \/ AuthStep
    \/ ChatStep
    \/ \E c \in Conns : ReadLogin(c, <<"a">>, <<"p">>)
    \/ \E c \in Conns, tick \in BOOLEAN : ReadChat(c, <<"h">>, tick)

SpecClock == Init /\ [][NextClock]_vars

\* A twelfth specification: connections log in while their writePumps run
\* behind, so that the Hub finds a full queue and drops the connection; the
\* writePump of a dropped connection drains its queue and closes the
\* connection, and the readPump ends by finding it closed.
NextDrop ==
    \/ HubStep
    \/ \E c \in Conns : Accept(c)
    \/ \E c \in Conns : Start(c)
    \/ \E c \in Conns : WriteOk(c)
    \/ \E c \in Conns : WriteExit(c)
    \/ AuthStep
    \/ \E c \in Conns : ReadLogin(c, <<"a">>, <<"p">>)
    \/ \E c \in Conns : ReadClosed(c)
    \/ \E c \in Conns : Cleanup(c)

SpecDrop == Init /\ [][NextDrop]_vars

\* The Hub, every serveConn, every readPump and every writePump that can take
\* a step takes one in the end (a write has a deadline).
DrainStep(c) == WriteOk(c) \/ WriteExit(c)
SpecDropFair ==
    /\ SpecDrop
    /\ WF_vars(HubStep)
    /\ \A c \in Conns :
          WF_vars(Start(c)) /\ WF_vars(ReaderStep(c)) /\ WF_vars(DrainStep(c))

\* ===================================================================== claims
\* The stamp of a payload that went through hub.broadcast; 0 for a packet the
\* connection was sent directly.
Stamp(item) ==
    IF item.type = "broadcast" THEN item.n
    ELSE IF item.type = "system" /\ item.message = "joined" THEN item.n
    ELSE 0
Stamped(q) == SelectSeq(q, LAMBDA item : Stamp(item) > 0)
Increasing(q) == \A i, j \in DOMAIN q : i < j => Stamp(q[i]) < Stamp(q[j])

\* The Hub takes a payload from hub.broadcast: the only step that shortens it.
FanOutStep == broadcast # <<>> /\ Len(broadcast') < Len(broadcast)

\* C1: when the Hub processes a payload, every connection of the live set
\* whose queue has room gets the payload appended once, and the queue of every
\* other connection (outside the live set, or full) is left as it was.
C1_FanOut ==
    [][FanOutStep =>
         \A c \in Conns :
            send'[c] = IF c \in clients /\ Len(send[c]) < sendBufSize
                       THEN Append(send[c], Head(broadcast))
                       ELSE send[c]]_vars

\* C1 witness: both connections hold the same chat payload.
C1_Witness ==
    \E i \in DOMAIN send[1], j \in DOMAIN send[2] :
        send[1][i].type = "broadcast" /\ send[1][i] = send[2][j]

\* C2: a live connection whose queue is full when the Hub processes a payload
\* leaves the live set and has its queue closed in that step, every other live
\* connection with room gets the payload in that step, and the Hub can take
\* the payload whatever the queues hold.
C2_Backpressure ==
    /\ [](proc = "up" /\ hubPc = "run" /\ broadcast # <<>> => ENABLED HubBroadcast)
    /\ [][FanOutStep =>
            \A c \in clients :
               Full(c) =>
                  /\ c \notin clients' /\ sendClosed'[c] /\ ~sendClosed[c]
                  /\ \A d \in clients \ {c} :
                        ~Full(d) => send'[d] = Append(send[d], Head(broadcast))]_vars

\* C2 witness: a connection still reading was dropped with a full queue while
\* the other one, still live, got a payload newer than any the first one has.
C2_Witness ==
    \E c, d \in Conns :
        /\ c # d /\ rd[c] = "read" /\ c \notin clients /\ sendClosed[c]
        /\ Len(send[c]) = sendBufSize
        /\ d \in clients
        /\ \E j \in DOMAIN send[d] : \A i \in DOMAIN send[c] : Stamp(send[d][j]) > Stamp(send[c][i])

C4_QueueOrder ==
    /\ [](\A c \in Conns :
            /\ Increasing(Stamped(send[c]))
            /\ \A i \in DOMAIN send[c], j \in DOMAIN broadcast :
                  Stamp(send[c][i]) < Stamp(broadcast[j]))
    /\ [][\A c \in Conns :
            Len(send'[c]) < Len(send[c]) => send'[c] = Tail(send[c])]_vars

\* C4 witness: a queue holds two payloads and writePump has written the
\* packets that were ahead of them.
C4_Witness ==
    \E c \in Conns :
        /\ Len(send[c]) = 2 /\ Stamp(send[c][1]) > 0 /\ Stamp(send[c][2]) > 0
        /\ wr[c] = "run"

\* C5: a handler reaches the pool submit only by the step that puts its
\* payload on hub.broadcast, a job enters the queue only from a handler at
\* that point, and the submit, accepted or dropped, leaves hub.broadcast alone.
C5_BroadcastBeforeSubmit ==
    [][\A c \in Conns :
         /\ rd[c] # "chatSubmit" /\ rd'[c] = "chatSubmit" =>
               /\ Len(broadcast') = Len(broadcast) + 1
               /\ broadcast'[Len(broadcast')].type = "broadcast"
               /\ broadcast'[Len(broadcast')].from = c
               /\ broadcast'[Len(broadcast')].content = cur'[c].content
         /\ rd[c] = "chatSubmit" /\ rd'[c] # "chatSubmit" =>
               /\ broadcast' = broadcast
               /\ jobs' = IF Len(jobs) < jobsCap THEN Append(jobs, cur[c]) ELSE jobs
         /\ Len(jobs') > Len(jobs) => \E d \in Conns : rd[d] = "chatSubmit" /\ rd'[d] = "read"]_vars

\* C5 witness: one login and two chats were broadcast; the queue holds the
\* first chat's job and the second was dropped.
C5_Witness ==
    /\ bseq = 3 /\ Len(jobs) = 1 /\ messages = <<>>
    /\ \A w \in Workers : wk[w] = None
    /\ \A c \in Conns : rd[c] \notin {"addOnline", "join", "chatBcast", "chatSubmit"}
    /\ Cardinality({c \in Conns : isAuthenticated(c)}) = 1

\* A chat, search, history or users packet handled for a connection that has
\* no identity.
UnauthRequest(c) ==
    /\ ~isAuthenticated(c)
    /\ \/ ReadChat(c, <<"h">>, TRUE)
       \/ ReadSearch(c, FALSE, <<"h">>, Empty, Nil, Nil)
       \/ ReadHistory(c, 0)
       \/ ReadUsers(c)

\* C6: a chat, search, history or users packet from a connection with no
\* identity puts an error response (success = false) on that connection's
\* queue (a non-blocking enqueue: nothing is added to a full queue) and on no
\* other queue, and changes nothing else: the Store, the job queue, the Hub,
\* the online index, the identity and the process itself stay as they were.
C6_UnauthenticatedRejected ==
    [][\A c \in Conns :
         UnauthRequest(c) =>
            /\ IF Full(c)
               THEN send' = send
               ELSE /\ Len(send'[c]) = Len(send[c]) + 1
                    /\ SubSeq(send'[c], 1, Len(send[c])) = send[c]
                    /\ send'[c][Len(send'[c])].type = "response"
                    /\ ~send'[c][Len(send'[c])].success
                    /\ \A d \in Conns \ {c} : send'[d] = send[d]
            /\ UNCHANGED <<storeVars, poolVars, hubVars, srvVars, userID, username,
                           sendClosed, connOpen>>]_vars

\* C7: once a connection has an identity, no later step changes its account
\* id or its username.
C7_IdentitySetOnce ==
    [][\A c \in Conns :
         isAuthenticated(c) =>
            userID'[c] = userID[c] /\ username'[c] = username[c]]_vars

\* C8: no two accounts have usernames equal ignoring case; a register of a
\* name that matches an account ignoring case answers with an error and
\* leaves the accounts as they were; and a register that creates the account
\* is the one that succeeds (its connection is bound to the new account), so
\* that of two registers of one name exactly one succeeds.
C8_UniqueUsernames ==
    /\ [](\A i, j \in DOMAIN byID :
             i # j => ~EqualFold(byID[i].username, byID[j].username))
    /\ [][\A c \in Conns, name \in Usernames, ok \in BOOLEAN :
             /\ ReadRegister(c, name, <<"p">>, ok)
             /\ \E k \in DOMAIN byID : EqualFold(byID[k].username, name)
             => /\ users' = users /\ byID' = byID /\ usersFile' = usersFile
                /\ userID'[c] = userID[c]
                /\ ~Full(c) /\ ~sendClosed[c] => ~send'[c][Len(send'[c])].success]_vars
    /\ [][byID' # byID =>
             \E c \in Conns :
                /\ rd[c] = "read" /\ rd'[c] = "addOnline"
                /\ userID'[c] \in DOMAIN byID' \ DOMAIN byID]_vars

\* A connection that is authenticated, entered in the online index by its
\* handler, and has not disconnected.
LoggedIn(c) ==
    /\ isAuthenticated(c) /\ connOpen[c] /\ c \in clients
    /\ rd[c] \in {"join", "read", "chatBcast", "chatSubmit"}

\* C9: the users() result holds the (account id, username) of every
\* connection that is authenticated and has not disconnected.
C9_UsersListsEveryConnection ==
    \A c \in Conns :
       LoggedIn(c) =>
          \E k \in DOMAIN onlineUsers :
             onlineUsers[k] = [userID |-> userID[c], username |-> username[c]]

\* C10: when a connection's cleanup has completed, the connection is absent
\* from the live set, its queue is closed, its network connection is closed
\* and, if it was authenticated, the online index has no entry for it.
C10_CleanupCompletes ==
    \A c \in Conns :
       rd[c] = "done" =>
          /\ c \notin clients /\ sendClosed[c] /\ ~connOpen[c]
          /\ isAuthenticated(c) => \A k \in DOMAIN online : online[k] # c

\* C11: once a connection's cleanup has completed, no entry of the online
\* index refers to that connection, whatever register and login packets it
\* sent before.
C11_NoStaleOnlineEntry ==
    \A c \in Conns :
       rd[c] = "done" => \A k \in DOMAIN online : online[k] # c

\* A step in which the Hub closes the queue of c: c leaves the live set, or
\* the Hub handles done while c is in it.
HubCloses(c) ==
    /\ c \in clients
    /\ c \notin clients' \/ (hubPc = "run" /\ hubPc' = "stopped")

\* C12: an unregister the Hub applies to a connection of the live set removes
\* it and closes its queue; applied to a connection that is not in the live
\* set it changes nothing; and whenever the Hub closes a queue (unregister,
\* drop of a slow client, shutdown) that queue was open, so no queue is
\* closed twice.
C12_UnregisterIdempotent ==
    /\ [][\A c \in Conns :
            rd[c] = "unregister" /\ rd'[c] = "cleanup" =>
               /\ IF c \in clients
                  THEN /\ clients' = clients \ {c}
                       /\ sendClosed' = [sendClosed EXCEPT ![c] = TRUE]
                  ELSE clients' = clients /\ sendClosed' = sendClosed
               /\ send' = send /\ proc' = proc]_vars
    /\ [][\A c \in Conns : HubCloses(c) => ~sendClosed[c] /\ sendClosed'[c]]_vars
    /\ [][\A c \in Conns : sendClosed[c] => sendClosed'[c]]_vars

\* An unregister was applied to c, and the shutdown closed the queue of d.
C12_Witness ==
    \E c, d \in Conns :
        /\ rd[c] = "cleanup" /\ c \notin clients /\ sendClosed[c]
        /\ hubPc = "stopped" /\ d \in clients /\ sendClosed[d]

\* C13: the step in which the Hub handles shutdown closes the queue of every
\* connection of the live set; after it the Hub applies no register, no
\* unregister and no broadcast; and a writePump whose queue has been closed
\* terminates (with the process at the latest).
C13_ShutdownClosesAll ==
    /\ [][hubPc = "run" /\ hubPc' = "stopped" =>
             \A c \in clients : sendClosed'[c]]_vars
    /\ [][hubPc = "stopped" =>
             /\ hubPc' = "stopped" /\ clients' = clients
             /\ Len(broadcast') >= Len(broadcast)
             /\ \A c \in Conns :
                   rd[c] \in {"register", "unregister"} => rd'[c] = rd[c]]_vars
    /\ \A c \in Conns :
          (sendClosed[c] /\ wr[c] = "run") ~> (wr[c] = "done" \/ proc # "up")

\* The Hub has stopped, and the writePump of a connection it closed at
\* shutdown has drained the queue and returned.
C13_Witness ==
    \E c \in Conns :
        /\ hubPc = "stopped" /\ c \in clients /\ sendClosed[c]
        /\ wr[c] = "done" /\ send[c] = <<>> /\ proc = "up"

\* A job the pool accepted that has not been handed to Store.SaveMessage yet.
Unsaved == jobs # <<>> \/ \E w \in Workers : wk[w] \notin {None, Exited}

\* C14: a job leaves the queue only into a worker and leaves the worker only
\* into the Store's log, once; when workerPool.stop has returned the queue is
\* empty and every worker has returned; and once the pool shutdown has begun
\* the process does not end while an accepted job is still unsaved.
C14_PoolDrains ==
    /\ [][Len(jobs') < Len(jobs) =>
             \E w \in Workers :
                wk[w] = None /\ wk'[w] = Head(jobs) /\ jobs' = Tail(jobs)]_vars
    /\ [][\A w \in Workers :
             wk[w] \notin {None, Exited} /\ wk'[w] # wk[w] =>
                messages' = Append(messages, wk[w]) /\ wk'[w] = None]_vars
    /\ [](sdPc = "done" => ~Unsaved /\ \A w \in Workers : wk[w] = Exited)
    /\ [](jobsClosed /\ proc = "exit" => ~Unsaved)

\* C15: a handler that has reached pool.submit can always take the step; the
\* step appends the job when the queue holds fewer jobs than its capacity and
\* otherwise leaves the queue as it is; in both cases the Store and every
\* connection's outbound queue are unchanged.
C15_SubmitNeverBlocks ==
    /\ [](\A c \in Conns :
             proc = "up" /\ rd[c] = "chatSubmit" => ENABLED ChatSubmit(c))
    /\ [][\A c \in Conns :
             rd[c] = "chatSubmit" /\ rd'[c] # "chatSubmit" =>
                /\ jobs' = IF Len(jobs) < jobsCap THEN Append(jobs, cur[c]) ELSE jobs
                /\ UNCHANGED <<storeVars, send>>]_vars

\* A packet that is answered with an error: a line that does not decode, a
\* request that needs an identity from a connection without one, a login
\* with a password no account has.
ErrorPacket(c) ==
    \/ ReadBad(c, "malformed packet")
    \/ UnauthRequest(c)
    \/ ReadLogin(c, <<"a">>, <<"q">>)

\* C16: the handling of a malformed or domain-error packet finds the
\* connection's outbound queue open, does not bring the process down and
\* leaves every other connection's queue as it was.
C16_NoSendOnClosedQueue ==
    [][\A c \in Conns :
         ErrorPacket(c) =>
            /\ ~sendClosed[c] /\ proc' = "up"
            /\ \A d \in Conns \ {c} : send'[d] = send[d]]_vars

\* C17: a line that does not decode puts one error response on the queue of
\* its connection (a non-blocking enqueue: nothing is added to a full queue)
\* and on no other queue; the connection stays as it was (live set, identity,
\* network connection) and readPump goes on to the next line.
C17_MalformedKeepsConnection ==
    [][\A c \in Conns :
         ReadBad(c, "malformed packet") =>
            /\ IF Full(c)
               THEN send' = send
               ELSE /\ send'[c] = Append(send[c], ErrorResponse("malformed packet"))
                    /\ \A d \in Conns \ {c} : send'[d] = send[d]
            /\ clients' = clients /\ userID' = userID /\ username' = username
            /\ connOpen' = connOpen /\ sendClosed' = sendClosed
            /\ rd'[c] = "read" /\ proc' = "up"]_vars

\* C18: a register of a free name whose snapshot write fails creates the
\* account in memory and still binds the connection to it (the handler goes
\* on to the online index and the success response); a message append whose
\* write fails still appends to the log and the worker goes on.
C18_WriteFailureNotSurfaced ==
    /\ [][\A c \in Conns, name \in Usernames :
             /\ ReadRegister(c, name, <<"p">>, FALSE)
             /\ UserKey(name) \notin DOMAIN users
             => /\ UserKey(name) \in DOMAIN users' /\ usersFile' = usersFile
                /\ rd'[c] = "addOnline"
                /\ userID'[c] = users'[UserKey(name)].id]_vars
    /\ [][\A w \in Workers :
             WorkerSave(w, FALSE) =>
                messages' = Append(messages, wk[w]) /\ wk'[w] = None /\ proc' = proc]_vars

\* a and b are the same string when case is ignored.
SameFold(a, b) ==
    Len(a) = Len(b) /\ \A i \in 1..Len(a) : LowerChar(a[i]) = LowerChar(b[i])
\* q occurs in s as a substring when case is ignored.
OccursFold(s, q) ==
    \E i \in 1..(Len(s) - Len(q) + 1) : SameFold(SubSeq(s, i, i + Len(q) - 1), q)
\* m satisfies every criterion that is supplied.
Satisfies(m, query, name, from, to) ==
    /\ query # Empty => OccursFold(m.content, query)
    /\ name # Empty => SameFold(m.username, name)
    /\ ~from.nil => m.timestamp >= from.t
    /\ ~to.nil => m.timestamp <= to.t
Satisfying(query, name, from, to) ==
    SelectSeq(messages, LAMBDA m : Satisfies(m, query, name, from, to))

\* C19: for every combination of criteria, Search returns the messages of the
\* log that satisfy every supplied criterion (query: substring of the content
\* ignoring case; username: equal ignoring case; from / to: inclusive bounds
\* of the timestamp), in log order; and the response handleSearch enqueues
\* for a search with at least one criterion carries exactly those messages.
\* (No step of SpecQuery changes the log, so the first part is evaluated on
\* the states in which no line has been read yet.)
C19_SearchExact ==
    /\ [][messages' = messages]_vars
    /\ [](scans = 0 =>
             \A query \in Queries, name \in SearchNames, from \in Times, to \in Times :
                Search(query, name, from, to) = Satisfying(query, name, from, to))
    /\ [][\A query \in AskedQueries, name \in AskedNames, from \in Times, to \in Times :
             /\ isAuthenticated(1) /\ ~sendClosed[1] /\ ~Full(1)
             /\ ~(query = Empty /\ name = Empty /\ from.nil /\ to.nil)
             /\ ReadSearch(1, FALSE, query, name, from, to)
             => send'[1] = Append(send[1],
                                  Response(TRUE, "results",
                                           [results |-> Satisfying(query, name, from, to)]))]_vars

\* A search response that carries the second message of a log of two and not
\* the first.
C19_Witness ==
    \E i \in DOMAIN send[1] :
        /\ send[1][i].type = "response" /\ send[1][i].message = "results"
        /\ Len(messages) = 2 /\ messages[1] # messages[2]
        /\ send[1][i].data.results = <<messages[2]>>

\* The last n messages of the log, all of them if it has fewer.
LastOfLog(n) ==
    LET k == IF n < Len(messages) THEN n ELSE Len(messages)
    IN [i \in 1..k |-> messages[Len(messages) - k + i]]
\* The bound a history request with this limit asks for.
Asked(limit) == IF limit > 0 THEN limit ELSE 20

\* C20: history(limit) returns the last min(limit, log length) messages of
\* the log in log order, where a limit that is zero or negative (or absent)
\* counts as 20, so that such a request never gets more than 20 messages; and
\* the response handleHistory enqueues is a success that carries exactly
\* those messages.
C20_HistoryBound ==
    /\ [](\A limit \in Limits :
             /\ GetHistory(historyLimit(limit)) = LastOfLog(Asked(limit))
             /\ limit <= 0 => Len(GetHistory(historyLimit(limit))) <= 20)
    /\ [][\A limit \in Limits :
             /\ isAuthenticated(1) /\ ~sendClosed[1] /\ ~Full(1)
             /\ ReadHistory(1, limit)
             => send'[1] = Append(send[1],
                                  Response(TRUE, "last messages",
                                           [messages |-> LastOfLog(Asked(limit))]))]_vars

\* A history response of 20 messages from a log of 22, and it ends with the
\* newest message of the log.
C20_Witness ==
    \E i \in DOMAIN send[1] :
        /\ send[1][i].type = "response" /\ send[1][i].message = "last messages"
        /\ Len(messages) = 22 /\ Len(send[1][i].data.messages) = 20
        /\ send[1][i].data.messages[20] = messages[22]

\* The join notice handleRegister / handleLogin submit for c.
JoinNotice(c) ==
    [type |-> "system", message |-> "joined", username |-> cur[c].username, from |-> c,
     n |-> bseq + 1]

\* C21: a register of a free name whose snapshot is written creates the
\* account and binds the connection to it; the handler then enters the
\* connection in the online index and puts a success response on its queue
\* (a non-blocking enqueue: nothing is added to a full queue) without bringing
\* the process down, submits one join notice to the Hub, and the Hub hands
\* that notice to every connection of the live set that has room, the
\* requester included.
C21_RegisterSucceeds ==
    /\ [][\A c \in Conns, name \in Usernames :
             /\ ReadRegister(c, name, <<"p">>, TRUE)
             /\ UserKey(name) \notin DOMAIN users
             => /\ UserKey(name) \in DOMAIN users'
                /\ users'[UserKey(name)].username = name
                /\ users'[UserKey(name)].id \notin DOMAIN byID
                /\ byID'[users'[UserKey(name)].id] = users'[UserKey(name)]
                /\ userID'[c] = users'[UserKey(name)].id /\ username'[c] = name
                /\ rd'[c] = "addOnline"]_vars
    /\ [][\A c \in Conns :
             rd[c] = "addOnline" /\ cur[c].op = "register" /\ rd'[c] # rd[c]
             => /\ userID[c] \in DOMAIN online' /\ online'[userID[c]] = c
                /\ send' = sendPacket(send, c, Response(TRUE, "register", None))
                /\ proc' = "up" /\ rd'[c] = "join"]_vars
    /\ [][\A c \in Conns :
             rd[c] = "join" /\ rd'[c] # rd[c]
             => broadcast' = Append(broadcast, JoinNotice(c))]_vars
    /\ [][/\ broadcast # <<>> /\ broadcast' = Tail(broadcast)
          /\ Head(broadcast).type = "system"
          => \A d \in clients :
                ~Full(d) => send'[d] = Append(send[d], Head(broadcast))]_vars

\* A login packet that Store.Authenticate rejects: no account of that name,
\* or another password.
LoginFails(name, pw) ==
    \/ UserKey(name) \notin DOMAIN users
    \/ users[UserKey(name)].hash # hashPassword(pw)

\* C22: a login that names no account or gives a wrong password puts an
\* error response on the connection's queue (a non-blocking enqueue) and
\* leaves the connection's identity, the online index, the Store, the
\* broadcast stream and the process as they were; a login that succeeds binds
\* the connection to the account, and its handler goes on to submit one join
\* notice, no more and no less, before the next packet is read.
C22_LoginFailsOrBinds ==
    /\ [][\A c \in Conns, pw \in Passwords :
             ReadLogin(c, <<"a">>, pw) /\ LoginFails(<<"a">>, pw)
             => /\ proc' = "up" /\ rd'[c] = "read"
                /\ send' = sendPacket(send, c,
                                      ErrorResponse(IF UserKey(<<"a">>) \in DOMAIN users
                                                    THEN "incorrect password"
                                                    ELSE "user not found"))
                /\ userID' = userID /\ username' = username /\ online' = online
                /\ UNCHANGED <<storeVars, broadcast, bseq>>]_vars
    /\ [][\A c \in Conns, pw \in Passwords :
             ReadLogin(c, <<"a">>, pw) /\ ~LoginFails(<<"a">>, pw)
             => /\ userID'[c] = users[<<"a">>].id
                /\ username'[c] = users[<<"a">>].username
                /\ rd'[c] = "addOnline" /\ broadcast' = broadcast]_vars
    /\ [][\A c \in Conns :
             rd[c] = "addOnline" /\ cur[c].op = "login" /\ rd'[c] # rd[c]
             => rd'[c] = "join" /\ broadcast' = broadcast /\ proc' = "up"]_vars
    /\ [][\A c \in Conns :
             rd[c] = "join" /\ cur[c].op = "login" /\ rd'[c] # rd[c]
             => /\ broadcast' = Append(broadcast, JoinNotice(c)) /\ bseq' = bseq + 1
                /\ rd'[c] = "read"]_vars

\* C23: the accounts and the messages of the Store, saved to the backing
\* files and loaded into a fresh Store, give the same accounts under the same
\* lower-case keys and ids and the same message log in the same order; and a
\* process started again on files that hold the Store's datasets has the
\* Store it had, a lookup by any spelling of a username included.
C23_SaveLoadRoundTrip ==
    /\ [](/\ load(saveUsersLocked(users)) = users
          /\ loadByID(saveUsersLocked(users)) = byID
          /\ loadMessages(saveMessagesLocked(messages)) = messages)
    /\ [][/\ Restart
          /\ usersFile = saveUsersLocked(users)
          /\ msgsFile = saveMessagesLocked(messages)
          => /\ users' = users /\ byID' = byID /\ messages' = messages
             /\ \A name \in Usernames :
                   (UserKey(name) \in DOMAIN users')
                      = (\E k \in DOMAIN byID : EqualFold(byID[k].username, name))]_vars

\* A process started again has loaded the account "A" under the key "a" and
\* a log of two messages.
C23_Witness ==
    /\ connID = 0 /\ scans > 0 /\ proc = "up"
    /\ <<"a">> \in DOMAIN users /\ users[<<"a">>].username = <<"A">>
    /\ Len(messages) = 2 /\ messages[1].username = <<"A">>
    /\ usersFile = saveUsersLocked(users) /\ msgsFile = saveMessagesLocked(messages)

\* C24: the step in which Store.RegisterUser or Store.SaveMessage returns
\* without an error leaves in the backing file of its dataset exactly the
\* dataset the Store holds, whatever writes failed before and whichever of
\* the workers made the call; between such calls the accounts file holds
\* accounts of the Store only and the messages file a prefix of the log.
C24_FileMatchesStore ==
    /\ [][\A c \in Conns, name \in Usernames :
             ReadRegister(c, name, <<"p">>, TRUE) /\ UserKey(name) \notin DOMAIN users
             => /\ usersFile' = saveUsersLocked(users') /\ load(usersFile') = users'
                /\ msgsFile' = msgsFile]_vars
    /\ [][\A w \in Workers :
             WorkerSave(w, TRUE)
             => /\ msgsFile' = saveMessagesLocked(messages')
                /\ loadMessages(msgsFile') = messages'
                /\ usersFile' = usersFile]_vars
    /\ [](/\ usersFile \subseteq saveUsersLocked(users)
          /\ \E n \in 0..Len(messages) :
                msgsFile = saveMessagesLocked(SubSeq(messages, 1, n)))

\* Two workers held a message each at the same time and the one with the
\* later message saved first; after the second save both files hold what
\* the Store holds.
C24_Witness ==
    /\ connID > 0 /\ Len(messages) = 2
    /\ messages[1].timestamp > messages[2].timestamp
    /\ msgsFile = saveMessagesLocked(messages)
    /\ usersFile = saveUsersLocked(users) /\ users # << >>

\* A quit packet of c has been handled and c's cleanup has not completed (in
\* NextQuit nothing else closes the connection of a running readPump).
QuitHandled(c) == rd[c] \notin {"idle", "done"} /\ ~connOpen[c]

\* C25: once a quit packet of a connection has been handled its network
\* connection stays closed, its inbound path terminates (with the process at
\* the latest), and when the cleanup has completed the connection is in
\* neither the live set nor the online index.
C25_QuitCloses ==
    /\ [][\A c \in Conns : QuitHandled(c) => ~connOpen'[c]]_vars
    /\ \A c \in Conns : QuitHandled(c) ~> (rd[c] = "done" \/ proc # "up")
    /\ [](\A c \in Conns :
             rd[c] = "done" =>
                c \notin clients /\ \A k \in DOMAIN online : online[k] # c)

\* C26: once a quit packet of a connection has been handled, readPump
\* dispatches no further packet of that connection: no handler starts, the
\* identity stays as it was, no account is created and no response is put on
\* the connection's queue; readPump can only end.
C26_ClosedIsTerminal ==
    [][\A c \in Conns :
         QuitHandled(c) /\ rd[c] = "read" =>
            /\ rd'[c] \in {"read", "unregister"}
            /\ userID'[c] = userID[c] /\ username'[c] = username[c]
            /\ users' = users
            /\ Len(send'[c]) > Len(send[c]) =>
                  send'[c][Len(send'[c])].type # "response"]_vars

\* C27: the message log, and with it every history result and the messages
\* file, is ordered oldest to newest: a message that precedes another in the
\* log has a timestamp that is not later.
C27_LogOrderedByTime ==
    /\ \A i, j \in DOMAIN messages :
          i < j => messages[i].timestamp <= messages[j].timestamp
    /\ \A i, j \in DOMAIN msgsFile :
          i < j => msgsFile[i].timestamp <= msgsFile[j].timestamp
    /\ \A n \in 1..MaxLog : \A i, j \in DOMAIN GetHistory(n) :
          i < j => GetHistory(n)[i].timestamp <= GetHistory(n)[j].timestamp

\* C28: a readPump that waits for input has a deadline on its connection,
\* whether a packet has been read before or not, so that a connection whose
\* client sends nothing more is closed in the end (with the process at the
\* latest).
C28_IdleTimeout ==
    /\ [](\A c \in Conns : proc = "up" /\ rd[c] = "read" => deadline[c])
    /\ \A c \in Conns :
          rd[c] = "read" ~> ((rd[c] = "done" /\ ~connOpen[c]) \/ proc # "up")

\* C29: the step in which a write fails ends writePump and closes the network
\* connection, which stays closed; readPump then terminates (with the process
\* at the latest), and once its cleanup has completed the connection is in
\* neither the live set nor the online index.
C29_WriteFailureTearsDown ==
    /\ [][\A c \in Conns :
             wr[c] = "run" /\ wr'[c] # "run" => wr'[c] = "done" /\ ~connOpen'[c]]_vars
    /\ [][\A c \in Conns : wr[c] = "done" => wr'[c] = "done" /\ ~connOpen'[c]]_vars
    /\ \A c \in Conns : wr[c] = "done" ~> (rd[c] = "done" \/ proc # "up")
    /\ [](\A c \in Conns :
             wr[c] = "done" /\ rd[c] = "done" =>
                c \notin clients /\ \A k \in DOMAIN online : online[k] # c)

\* A request of c that a handler refuses with a domain error.
DomainError(c) ==
    \/ ReadChat(c, Empty, TRUE)
    \/ ReadSearch(c, FALSE, Empty, Empty, Nil, Nil)
    \/ ReadRegister(c, <<"A">>, <<"p">>, TRUE) /\ UserKey(<<"A">>) \in DOMAIN users
    \/ \E pw \in Passwords : ReadLogin(c, <<"a">>, pw) /\ LoginFails(<<"a">>, pw)
    \/ ReadBad(c, "unknown packet type")

\* C30: a request of an authenticated connection that is refused with a
\* domain error puts one error response (success = false) on that
\* connection's queue (a non-blocking enqueue: nothing is added to a full
\* queue) and on no other; the connection stays open, in the live set and
\* under its identity, the process stays up, and nothing is submitted to the
\* Hub, to the worker pool or to the Store.
C30_DomainErrorsAnswered ==
    [][\A c \in Conns :
         isAuthenticated(c) /\ DomainError(c) =>
            /\ proc' = "up" /\ rd'[c] = "read"
            /\ IF Full(c)
               THEN send' = send
               ELSE /\ Len(send'[c]) = Len(send[c]) + 1
                    /\ SubSeq(send'[c], 1, Len(send[c])) = send[c]
                    /\ send'[c][Len(send'[c])].type = "response"
                    /\ ~send'[c][Len(send'[c])].success
                    /\ \A d \in Conns \ {c} : send'[d] = send[d]
            /\ connOpen' = connOpen /\ sendClosed' = sendClosed /\ clients' = clients
            /\ userID' = userID /\ username' = username /\ online' = online
            /\ UNCHANGED <<broadcast, bseq, jobs, wk, storeVars>>]_vars

\* A step in which a handler of c sends c a packet directly: the welcome, the
\* answer to a login or register, or an error response.
DirectSend(c) ==
    \/ rd[c] = "start" /\ rd'[c] # rd[c]
    \/ rd[c] = "addOnline" /\ rd'[c] # rd[c]
    \/ ErrorPacket(c)

\* C31: a packet sent directly to a connection whose queue is full is
\* dropped: the queues, the live set and the process stay as they were; and
\* no step of the Hub or of a handler waits for room on a queue: the Hub can
\* always take a pending payload and a handler can always take its send.
C31_FullQueueNeverBlocks ==
    /\ [][\A c \in Conns :
             Full(c) /\ DirectSend(c) =>
                /\ send' = send /\ clients' = clients /\ sendClosed' = sendClosed
                /\ proc' = "up"]_vars
    /\ [](proc = "up" /\ hubPc = "run" /\ broadcast # <<>> => ENABLED HubBroadcast)
    /\ [](\A c \in Conns :
             /\ proc = "up" /\ rd[c] = "start" => ENABLED Start(c)
             /\ proc = "up" /\ rd[c] = "addOnline" => ENABLED AddOnline(c)
             /\ proc = "up" /\ rd[c] = "read" /\ scans < MaxScans =>
                   ENABLED ReadBad(c, "malformed packet"))

\* The account id and the username of m are those of an account of the Store.
Known(m) == m.userID \in DOMAIN byID /\ byID[m.userID].username = m.username

\* C32: a message a chat handler has constructed, a chat payload on the
\* Hub's broadcast stream or on a connection's queue, a job in the pool's
\* queue or in a worker's hands carries the id and the username of an account
\* of the Store; and a message is appended to the log only while the Store
\* holds its account.
C32_MessagesCarryAccount ==
    /\ [](\A c \in Conns : rd[c] \in {"chatBcast", "chatSubmit"} => Known(cur[c]))
    /\ [](\A i \in DOMAIN broadcast :
             broadcast[i].type = "broadcast" => Known(broadcast[i]))
    /\ [](\A c \in Conns : \A i \in DOMAIN send[c] :
             send[c][i].type = "broadcast" => Known(send[c][i]))
    /\ [](\A i \in DOMAIN jobs : Known(jobs[i]))
    /\ [](\A w \in Workers : wk[w] \notin {None, Exited} => Known(wk[w]))
    /\ [][Len(messages') > Len(messages) =>
             /\ messages' = Append(messages, messages'[Len(messages')])
             /\ Known(messages'[Len(messages')])]_vars

\* An account registered in this run has a message in the log, another in
\* the job queue and a chat payload on its connection's queue.
C32_Witness ==
    /\ Len(messages) = 1 /\ Len(jobs) = 1
    /\ messages[1].username = <<"A">> /\ jobs[1].username = <<"A">>
    /\ \E c \in Conns : \E i \in DOMAIN send[c] : send[c][i].type = "broadcast"

\* C33: no two messages of the log, of the job queue or in the hands of the
\* workers have the same id.
C33_UniqueMessageIds ==
    LET held == {w \in Workers : wk[w] \notin {None, Exited}}
        ids == [i \in DOMAIN messages |-> messages[i].id]
                  \o [i \in DOMAIN jobs |-> jobs[i].id]
    IN /\ \A i, j \in DOMAIN ids : i # j => ids[i] # ids[j]
       /\ \A w \in held : \A i \in DOMAIN ids : wk[w].id # ids[i]
       /\ \A v, w \in held : v # w => wk[v].id # wk[w].id

\* The jobs the pool holds and the messages of the log, in one sequence.
Accepted ==
    LET held == {w \in Workers : wk[w] \notin {None, Exited}}
        inHand == [w \in 1..NWorkers |-> IF w \in held THEN <<wk[w]>> ELSE <<>>]
    IN messages \o jobs \o inHand[1] \o inHand[2]

\* C34: a step changes the log only by appending the message a worker holds,
\* which the worker then lets go: the log before is a prefix of the log
\* after, nothing is removed or reordered; and no job the pool accepted is in
\* the log twice, or in the log and still in the pool.
C34_LogAppendOnly ==
    /\ [][\/ messages' = messages
          \/ \E w \in Workers :
                /\ wk[w] \notin {None, Exited} /\ wk'[w] = None
                /\ messages' = Append(messages, wk[w])
                /\ SubSeq(messages', 1, Len(messages)) = messages]_vars
    /\ [](\A i, j \in DOMAIN Accepted : i # j => Accepted[i] # Accepted[j])

\* Two chats were accepted by the pool and both are in the log, the later
\* one first.
C34_Witness ==
    /\ Len(messages) = 2 /\ jobs = <<>> /\ \A w \in Workers : wk[w] = None
    /\ messages[1].id = 2 /\ messages[2].id = 1

\* C35: while the Hub runs, every connection of the live set has an open
\* queue, so a step in which the Hub fans a payload out finds no closed queue
\* in the live set, whatever the order of registers, unregisters, broadcasts
\* and the shutdown.
C35_LiveQueuesOpen ==
    /\ [](hubPc = "run" => \A c \in clients : ~sendClosed[c])
    /\ [][FanOutStep => \A c \in clients : ~sendClosed[c]]_vars

\* The Hub runs and has a payload to fan out; one connection was dropped as
\* slow, its queue closed, and the other is live with an open queue.
C35_Witness ==
    \E c, d \in Conns :
        /\ hubPc = "run" /\ broadcast # <<>> /\ proc = "up"
        /\ c \notin clients /\ sendClosed[c] /\ rd[c] = "read"
        /\ d \in clients /\ ~sendClosed[d]

\* C36: a handler's pool.submit never runs once Shutdown has closed the job
\* queue: in every step in which a chat handler submits its job the queue is
\* still open.
C36_NoSubmitAfterClose ==
    [][\A c \in Conns :
          rd[c] = "chatSubmit" /\ rd'[c] # "chatSubmit" => ~jobsClosed]_vars

\* The task of connection c is at an operation on a Hub channel: the send on
\* hub.register, the send on hub.unregister, or a send on hub.broadcast.
AtHubChannel(c) == rd[c] \in {"register", "unregister", "join", "chatBcast"}

\* C37: once the Hub has stopped, no task of a connection is blocked for good
\* on a Hub channel: a task that is at a send on hub.register, hub.unregister
\* or hub.broadcast while the process is up can take its step.
C37_NoTaskBlockedOnStoppedHub ==
    \A c \in Conns :
        proc = "up" /\ hubPc = "stopped" /\ AtHubChannel(c) =>
            ENABLED (NextHubStop /\ rd'[c] # rd[c])

\* The chat payloads that are on the broadcast stream or, fanned out, in an
\* outbound queue; n is the position at which a payload was placed on the
\* stream, timestamp the clock reading that is also the message's id.
ChatPayloads ==
    {p \in Range(broadcast) \cup UNION {Range(send[c]) : c \in Conns} :
        p.type = "broadcast"}

\* C38: the log agrees with the broadcast order: of two chats that are both
\* in the log, the one that was placed on the broadcast stream first comes
\* first in the log.
C38_LogFollowsBroadcastOrder ==
    \A p, q \in ChatPayloads :
        p.n < q.n =>
            \A i, j \in DOMAIN messages :
                messages[i].id = p.timestamp /\ messages[j].id = q.timestamp
                    /\ p.timestamp # q.timestamp => i < j

\* c was dropped by the Hub as a slow client and its readPump has not yet
\* reached its cleanup.
Dropped(c) ==
    sendClosed[c] /\ c \notin clients /\ rd[c] \notin {"unregister", "cleanup", "done"}

\* c is torn down: writePump has returned, the connection is closed, readPump
\* has returned and no entry of the online index names c.
TornDown(c) ==
    /\ wr[c] = "done" /\ ~connOpen[c] /\ rd[c] = "done"
    /\ \A k \in DOMAIN online : online[k] # c

\* C39: the Hub's drop of a slow connection takes no other connection out of
\* the live set; a dropped connection is torn down in the end (writePump
\* returned, connection closed, readPump returned, no online entry); and
\* until then its steps leave the process up and every other connection in
\* the live set.
C39_DroppedIsTornDown ==
    /\ [][FanOutStep => \A d \in clients : ~Full(d) => d \in clients']_vars
    /\ [][\A c \in Conns :
             Dropped(c) /\ (rd'[c] # rd[c] \/ wr'[c] # wr[c]) =>
                proc' = "up" /\ clients \subseteq clients']_vars
    /\ \A c \in Conns : Dropped(c) ~> (TornDown(c) \/ proc # "up")

\* The Hub has applied an unregister of c.
Unregistered(c) == rd[c] \in {"cleanup", "done"}

\* C40: a connection enters the live set only by its register, which the Hub
\* applies before serveConn goes on: a connection whose pumps have started is
\* in the live set unless the Hub has taken it out and closed its queue; its
\* unregister is submitted from readPump only, after the register; and once
\* the Hub has applied the unregister the connection is not in the live set
\* and never enters it again.
C40_RegisterBeforeUnregister ==
    /\ [](\A c \in Conns :
             rd[c] \notin {"idle", "register"} => c \in clients \/ sendClosed[c])
    /\ [][\A c \in Conns :
             c \in clients' \ clients => rd[c] = "register" /\ rd'[c] = "start"]_vars
    /\ [][\A c \in Conns :
             rd'[c] = "unregister" /\ rd[c] # "unregister" => rd[c] = "read"]_vars
    /\ [](\A c \in Conns : Unregistered(c) => c \notin clients)
    /\ [][\A c \in Conns : Unregistered(c) => Unregistered(c)']_vars

\* The Hub runs; it has applied the unregister of one connection, whose
\* readPump has returned, and the other connection is live and reading.
C40_Witness ==
    \E c, d \in Conns :
        /\ hubPc = "run" /\ proc = "up"
        /\ rd[c] = "done" /\ c \notin clients /\ sendClosed[c]
        /\ rd[d] = "read" /\ d \in clients /\ scans > 0
====
